---------------------------- MODULE Spec2Model ----------------------------
(***************************************************************************)
(* A model of app1.py: the text cleaning (clean_text_block), the closing   *)
(* splice of the refine branch, the line walk and contact block of the     *)
(* download branch, and the session store the routes share.                *)
(*                                                                         *)
(* A Python str is a sequence of one-character strings, so that the        *)
(* regular expressions and str methods of the source are computed          *)
(* character by character.  The one character that TLA+ strings cannot     *)
(* hold, U+2022 (the bullet glyph), is written "u2022".                    *)
(***************************************************************************)
EXTENDS Integers, Sequences, FiniteSets, Bags, TLC

VARIABLES
    db,        \* the companies table: a sequence of rows, row i has id i
    storage,   \* the in-memory storage dict: session id -> slot
    cookie,    \* session["id"] as the browser holds it, or NoId: the session
               \* a request loads when it is sent, and the one a response that
               \* changed its session writes back
    nextSid,   \* the next fresh value of os.urandom(8).hex()
    inflight,  \* the bag of requests under way: each blocked in a call of
               \* sqlite3 (insert_company, get_companies, get_company) or in
               \* client.chat.completions.create
    response,  \* what the last finished request answered
    respliced, \* history: a refine has replaced a draft that ended with the
               \* spliced closing already
    text,      \* pure-function runs: the text under transformation
    hist,      \* pure-function runs: the texts of the earlier passes
    blocks,    \* pure-function runs: the blocks the last line walk emitted
    vspBlocks  \* pure-function runs: the blocks the last VSP line walk emitted

appVars == <<db, storage, cookie, nextSid, inflight, response, respliced>>
fnVars  == <<text, hist, blocks, vspBlocks>>
vars    == <<db, storage, cookie, nextSid, inflight, response, respliced,
             text, hist, blocks, vspBlocks>>

----------------------------------------------------------------------------
(* Characters and str methods                                              *)

BULLET == "u2022"

\* str.isspace() / the regex class \s, on the characters the model uses
SpaceChars == {" ", "\n", "\r", "\t"}
IsSpace(c) == c \in SpaceChars

UpperToLower ==
    [c \in {"A","B","C","D","E","F","G","H","I","J","K","L","M","N","O","P","Q",
            "R","S","T","U","V","W","X","Y","Z"} |->
       CASE c = "A" -> "a" [] c = "B" -> "b" [] c = "C" -> "c" [] c = "D" -> "d"
         [] c = "E" -> "e" [] c = "F" -> "f" [] c = "G" -> "g" [] c = "H" -> "h"
         [] c = "I" -> "i" [] c = "J" -> "j" [] c = "K" -> "k" [] c = "L" -> "l"
         [] c = "M" -> "m" [] c = "N" -> "n" [] c = "O" -> "o" [] c = "P" -> "p"
         [] c = "Q" -> "q" [] c = "R" -> "r" [] c = "S" -> "s" [] c = "T" -> "t"
         [] c = "U" -> "u" [] c = "V" -> "v" [] c = "W" -> "w" [] c = "X" -> "x"
         [] c = "Y" -> "y" [] c = "Z" -> "z"]

LowerChar(c) == IF c \in DOMAIN UpperToLower THEN UpperToLower[c] ELSE c

\* str.lower()
Lower(s) == [i \in 1..Len(s) |-> LowerChar(s[i])]

SetMin(S) == CHOOSE m \in S : \A n \in S : m <= n

\* s[i-1:] in Python terms: the suffix that starts at the 1-based position i
From(s, i) == SubSeq(s, i, Len(s))

\* str.startswith(p)
StartsWith(s, p) == Len(s) >= Len(p) /\ SubSeq(s, 1, Len(p)) = p

\* str.endswith(p)
EndsWith(s, p) == Len(s) >= Len(p) /\ SubSeq(s, Len(s) - Len(p) + 1, Len(s)) = p

\* str.strip(): leading and trailing whitespace removed
Strip(s) ==
    IF \A i \in 1..Len(s) : IsSpace(s[i]) THEN <<>>
    ELSE LET first == CHOOSE i \in 1..Len(s) :
                          ~IsSpace(s[i]) /\ \A k \in 1..(i - 1) : IsSpace(s[k])
             last == CHOOSE j \in 1..Len(s) :
                         ~IsSpace(s[j]) /\ \A k \in (j + 1)..Len(s) : IsSpace(s[k])
         IN  SubSeq(s, first, last)

\* the position after the run of characters of the class that starts at i
RunEnd(s, i, class) ==
    CHOOSE j \in i..(Len(s) + 1) :
        /\ j = Len(s) + 1 \/ s[j] \notin class
        /\ \A k \in i..(j - 1) : s[k] \in class

\* the first position from i on that holds a character of the class, or the
\* position after the text: no match of a pattern that begins with such a
\* character starts before it
NextOf(s, i, class) ==
    CHOOSE j \in i..(Len(s) + 1) :
        /\ j = Len(s) + 1 \/ s[j] \in class
        /\ \A k \in i..(j - 1) : s[k] \notin class

\* where the scan of a substitution goes on after position i, which starts
\* no match: the characters up to there are copied
CopyEnd(s, i, class) == IF s[i] \in class THEN i + 1 ELSE NextOf(s, i, class)

StarChars == {"*"}
HashChars == {"#"}
BulletChars == {BULLET}
ReturnChars == {"\r"}
NewlineChars == {"\n"}

\* str.split("\n"): the pieces between the newlines, empty pieces kept
Split(s) ==
    LET nl == {i \in 1..Len(s) : s[i] = "\n"}
        cuts == nl \cup {0, Len(s) + 1}
        starts == {c \in cuts : c <= Len(s)}
        nextCut(c) == SetMin({d \in cuts : d > c})
        nth[k \in 1..Cardinality(starts)] ==
            IF k = 1 THEN 0 ELSE nextCut(nth[k - 1])
    IN  [k \in 1..Cardinality(starts) |-> SubSeq(s, nth[k] + 1, nextCut(nth[k]) - 1)]

----------------------------------------------------------------------------
(* clean_text_block                                                        *)

\* re.sub(r"\*\*(.*?)\*\*", r"\1", t) for n = 2 and re.sub(r"\*(.*?)\*",
\* r"\1", t) for n = 1, scanning from position i: a marker of n stars, the
\* shortest run without a newline, the next marker; the run is kept.
RECURSIVE SubEmphasis(_, _, _)
SubEmphasis(t, i, n) ==
    IF i > Len(t) THEN <<>>
    ELSE LET isMark(k) == k + n - 1 <= Len(t) /\ \A j \in k..(k + n - 1) : t[j] = "*"
             closers == {k \in (i + n)..Len(t) :
                            /\ isMark(k)
                            /\ \A j \in (i + n)..(k - 1) : t[j] # "\n"}
         IN  IF isMark(i) /\ closers # {}
             THEN LET k == SetMin(closers)
                  IN  SubSeq(t, i + n, k - 1) \o SubEmphasis(t, k + n, n)
             ELSE LET j == CopyEnd(t, i, StarChars)
                  IN  SubSeq(t, i, j - 1) \o SubEmphasis(t, j, n)

\* re.sub(r"^#+\s*", "", t, flags=re.MULTILINE) scanning from position i
RECURSIVE SubHeadingMarks(_, _)
SubHeadingMarks(t, i) ==
    IF i > Len(t) THEN <<>>
    ELSE IF t[i] = "#" /\ (i = 1 \/ t[i - 1] = "\n")
         THEN SubHeadingMarks(t, RunEnd(t, RunEnd(t, i, HashChars), SpaceChars))
         ELSE LET j == CopyEnd(t, i, HashChars)
              IN  SubSeq(t, i, j - 1) \o SubHeadingMarks(t, j)

\* re.sub(r"<U+2022>\s*", "- ", t, flags=re.MULTILINE) scanning from position i
RECURSIVE SubBullets(_, _)
SubBullets(t, i) ==
    IF i > Len(t) THEN <<>>
    ELSE IF t[i] = BULLET
         THEN <<"-", " ">> \o SubBullets(t, RunEnd(t, i + 1, SpaceChars))
         ELSE LET j == CopyEnd(t, i, BulletChars)
              IN  SubSeq(t, i, j - 1) \o SubBullets(t, j)

\* re.sub(r"\r\n", "\n", t) scanning from position i
RECURSIVE SubCrLf(_, _)
SubCrLf(t, i) ==
    IF i > Len(t) THEN <<>>
    ELSE IF t[i] = "\r" /\ i + 1 <= Len(t) /\ t[i + 1] = "\n"
         THEN <<"\n">> \o SubCrLf(t, i + 2)
         ELSE LET j == CopyEnd(t, i, ReturnChars)
              IN  SubSeq(t, i, j - 1) \o SubCrLf(t, j)

\* re.sub(r"\n{3,}", "\n\n", t) scanning from position i
RECURSIVE SubBlankRuns(_, _)
SubBlankRuns(t, i) ==
    IF i > Len(t) THEN <<>>
    ELSE IF t[i] = "\n" /\ RunEnd(t, i, NewlineChars) - i >= 3
         THEN <<"\n", "\n">> \o SubBlankRuns(t, RunEnd(t, i, NewlineChars))
         ELSE LET j == CopyEnd(t, i, NewlineChars)
              IN  SubSeq(t, i, j - 1) \o SubBlankRuns(t, j)

clean_text_block(t) ==
    IF t = <<>> THEN <<>>
    ELSE LET t1 == SubEmphasis(t, 1, 2)
             t2 == SubEmphasis(t1, 1, 1)
             t3 == SubHeadingMarks(t2, 1)
             t4 == SubBullets(t3, 1)
             t5 == SubCrLf(t4, 1)
             t6 == SubBlankRuns(t5, 1)
         IN  Strip(t6)

----------------------------------------------------------------------------
(* Python values that may be None, and the companies rows                  *)

PyStr(s) == [none |-> FALSE, s |-> s]
PyNone == [none |-> TRUE, s |-> <<>>]

S_None ==
    <<"N","o","n","e">>

\* how an f-string renders a value: str(None) is "None"
Fmt(v) == IF v.none THEN S_None ELSE v.s

\* dict.get(key, default)
DictGet(d, key, default) == IF key \in DOMAIN d THEN d[key] ELSE default

\* get_company's None: no row has id 0
NoCompany ==
    [id |-> 0, name |-> <<>>, contact_email |-> PyNone, contact_phone |-> PyNone,
     website |-> PyNone]

S_Provider ==
    <<"P","r","o","v","i","d","e","r">>

\* company['name'] if company else 'Provider'
ProviderName(company) == IF company # NoCompany THEN company.name ELSE S_Provider

----------------------------------------------------------------------------
(* The closing splice of the refine branch                                 *)

S_closing ==
    <<"c","l","o","s","i","n","g">>
S_the_client ==
    <<"t","h","e"," ","c","l","i","e","n","t">>
CtaHead ==
    <<" ","r","e","c","o","m","m","e","n","d","s"," ","m","o","v","i","n","g"," ","f","o","r","w","a",
      "r","d"," ","w","i","t","h"," ","a"," ","p","h","a","s","e","d"," ","e","n","g","a","g","e","m",
      "e","n","t"," ","t","o"," ","r","e","a","l","i","z","e"," ","m","e","a","s","u","r","a","b","l",
      "e"," ","o","p","e","r","a","t","i","o","n","a","l"," ","e","f","f","i","c","i","e","n","c","i",
      "e","s"," ","w","i","t","h","i","n"," ","t","h","e"," ","f","i","r","s","t"," ","y","e","a","r",
      "."," ","W","e"," ","a","r","e"," ","p","r","e","p","a","r","e","d"," ","t","o"," ","i","n","i",
      "t","i","a","t","e"," ","g","o","v","e","r","n","a","n","c","e"," ","r","e","v","i","e","w","s",
      ","," ","a","l","i","g","n"," ","e","x","e","c","u","t","i","v","e"," ","s","t","a","k","e","h",
      "o","l","d","e","r","s",","," ","a","n","d"," ","f","o","r","m","a","l","i","z","e"," ","n","e",
      "x","t"," ","s","t","e","p","s"," ","t","o"," ","e","n","s","u","r","e"," ">>
CtaTail ==
    <<" ","a","c","h","i","e","v","e","s"," ","s","u","s","t","a","i","n","a","b","l","e"," ","i","m",
      "p","r","o","v","e","m","e","n","t","s"," ","i","n"," ","p","a","t","i","e","n","t"," ","s","a",
      "t","i","s","f","a","c","t","i","o","n",","," ","c","o","s","t"," ","e","f","f","i","c","i","e",
      "n","c","y",","," ","a","n","d"," ","c","o","m","p","l","i","a","n","c","e"," ","r","e","a","d",
      "i","n","e","s","s",".">>
T_Closing ==
    <<"C","l","o","s","i","n","g"," ","C","a","l","l","-","t","o","-","A","c","t","i","o","n">>

\* the f-string formal_cta
formal_cta(prov, client_disp) == prov \o CtaHead \o client_disp \o CtaTail

\* re.IGNORECASE match of the literal Closing at position p
ClosingAt(t, p) == p + 6 <= Len(t) /\ Lower(SubSeq(t, p, p + 6)) = S_closing

\* whether r"\n?7\)\s*Closing.*|^Closing.*" (IGNORECASE, DOTALL, no MULTILINE)
\* matches at position p: an optional newline, "7)", whitespace, Closing; or
\* Closing at the very start of the string
ClosingMatchAt(t, p) ==
    LET q == IF t[p] = "\n" THEN p + 1 ELSE p
    IN  \/ /\ q + 1 <= Len(t)
           /\ t[q] = "7"
           /\ t[q + 1] = ")"
           /\ ClosingAt(t, RunEnd(t, q + 2, SpaceChars))
        \/ /\ p = 1
           /\ ClosingAt(t, 1)

\* re.sub(<the pattern>, "", draft): with DOTALL the first match runs to the
\* end of the string, so everything from the leftmost match on is removed
RemoveClosing(draft) ==
    LET hits == {p \in 1..Len(draft) : ClosingMatchAt(draft, p)}
    IN  IF hits = {} THEN draft ELSE SubSeq(draft, 1, SetMin(hits) - 1)

\* draft = re.sub(...).strip(); draft += "\n\nClosing Call-to-Action\n" + formal_cta
ClosingTail(cta) == <<"\n", "\n">> \o T_Closing \o <<"\n">> \o cta

\* a splice that drops the old closing and appends nothing
SpliceWithoutAppend(draft, cta) == Strip(RemoveClosing(draft))

SpliceClosing(draft, cta) == Strip(RemoveClosing(draft)) \o ClosingTail(cta)

\* prov and client_disp as the refine branch sets them
RefineCta(company) ==
    formal_cta(IF company # NoCompany THEN DictGet(company, "name", S_Provider)
               ELSE S_Provider,
               S_the_client)

----------------------------------------------------------------------------
(* The line walks of the download branch                                   *)

S_introduction ==
    <<"i","n","t","r","o","d","u","c","t","i","o","n">>
S_our_understanding ==
    <<"o","u","r"," ","u","n","d","e","r","s","t","a","n","d","i","n","g">>
S_our_approach ==
    <<"o","u","r"," ","a","p","p","r","o","a","c","h">>
S_solution_overview ==
    <<"s","o","l","u","t","i","o","n"," ","o","v","e","r","v","i","e","w">>
S_how_we_will_deliver ==
    <<"h","o","w"," ","w","e"," ","w","i","l","l"," ","d","e","l","i","v","e","r">>
S_why ==
    <<"w","h","y">>
T_Introduction ==
    <<"I","n","t","r","o","d","u","c","t","i","o","n">>
T_Understanding ==
    <<"O","u","r"," ","U","n","d","e","r","s","t","a","n","d","i","n","g"," ","o","f"," ","Y","o","u",
      "r"," ","G","o","a","l","s">>
T_Approach ==
    <<"O","u","r"," ","A","p","p","r","o","a","c","h"," ","t","o"," ","M","e","e","t","i","n","g"," ",
      "Y","o","u","r"," ","G","o","a","l","s">>
T_Solution ==
    <<"S","o","l","u","t","i","o","n"," ","O","v","e","r","v","i","e","w">>
T_Deliver ==
    <<"H","o","w"," ","W","e"," ","W","i","l","l"," ","D","e","l","i","v","e","r">>
T_WhyPrefix ==
    <<"W","h","y"," ">>

\* title is None
NoTitle == <<>>

\* the if/elif chain over lower.startswith(...): the first prefix that matches
\* decides the title
TitleOf(lower, company) ==
    IF StartsWith(lower, S_introduction) THEN T_Introduction
    ELSE IF StartsWith(lower, S_our_understanding) THEN T_Understanding
    ELSE IF StartsWith(lower, S_our_approach) THEN T_Approach
    ELSE IF StartsWith(lower, S_solution_overview) THEN T_Solution
    ELSE IF StartsWith(lower, S_how_we_will_deliver) THEN T_Deliver
    ELSE IF StartsWith(lower, S_why) THEN T_WhyPrefix \o ProviderName(company)
    ELSE IF StartsWith(lower, S_closing) THEN T_Closing
    ELSE NoTitle

Heading(title) == [kind |-> "heading", text |-> title, after |-> 10]
BulletItem(t) == [kind |-> "bullet", text |-> t, after |-> 4]
Paragraph(t, pts) == [kind |-> "paragraph", text |-> t, after |-> pts]

\* a loop body that cuts the bullet marker one character short
DraftBlockShortCut(stripped, company) ==
    LET title == TitleOf(Lower(stripped), company)
    IN  IF title # NoTitle THEN Heading(title)
        ELSE IF StartsWith(stripped, <<"-", " ">>) THEN BulletItem(From(stripped, 2))
        ELSE Paragraph(stripped, 8)

\* one pass of the loop body over a non-blank line, already stripped
DraftBlock(stripped, company) ==
    LET title == TitleOf(Lower(stripped), company)
    IN  IF title # NoTitle THEN Heading(title)
        ELSE IF StartsWith(stripped, <<"-", " ">>) THEN BulletItem(From(stripped, 3))
        ELSE Paragraph(stripped, 8)

IsNonBlank(line) == Strip(line) # <<>>

\* a walk that files the headings under the canonical enumeration: the
\* heading blocks in the order of the if/elif chain, then the other blocks
CanonicalRank(title) ==
    CASE title = T_Introduction -> 1
      [] title = T_Understanding -> 2
      [] title = T_Approach -> 3
      [] title = T_Solution -> 4
      [] title = T_Deliver -> 5
      [] title = T_Closing -> 7
      [] OTHER -> 6

WalkDraftCanonical(draft, company) ==
    LET lines == SelectSeq(Split(draft), IsNonBlank)
        walked == [k \in 1..Len(lines) |-> DraftBlock(Strip(lines[k]), company)]
        ranked(r) == SelectSeq(walked, LAMBDA b : b.kind = "heading"
                                                 /\ CanonicalRank(b.text) = r)
        others == SelectSeq(walked, LAMBDA b : b.kind # "heading")
    IN  ranked(1) \o ranked(2) \o ranked(3) \o ranked(4) \o ranked(5) \o ranked(6)
            \o ranked(7) \o others

\* a walk that gives every line a block, the blank ones too
WalkDraftKeepingBlanks(draft, company) ==
    LET lines == Split(draft)
    IN  [k \in 1..Len(lines) |-> DraftBlock(Strip(lines[k]), company)]

\* for line in draft.split("\n"): blank lines skipped, one block per other line
WalkDraft(draft, company) ==
    LET lines == SelectSeq(Split(draft), IsNonBlank)
    IN  [k \in 1..Len(lines) |-> DraftBlock(Strip(lines[k]), company)]

S_case_for_change ==
    <<"c","a","s","e"," ","f","o","r"," ","c","h","a","n","g","e">>
S_business_value ==
    <<"b","u","s","i","n","e","s","s"," ","v","a","l","u","e">>
S_proposed_solution ==
    <<"p","r","o","p","o","s","e","d"," ","s","o","l","u","t","i","o","n">>
T_CaseForChange ==
    <<"C","a","s","e"," ","f","o","r"," ","C","h","a","n","g","e">>
T_BusinessValue ==
    <<"B","u","s","i","n","e","s","s"," ","V","a","l","u","e"," ","f","o","r"," ","t","h","e"," ","C",
      "l","i","e","n","t">>
T_ProposedSolution ==
    <<"P","r","o","p","o","s","e","d"," ","S","o","l","u","t","i","o","n">>

VspTitleOf(lower, company) ==
    IF StartsWith(lower, S_case_for_change) THEN T_CaseForChange
    ELSE IF StartsWith(lower, S_business_value) THEN T_BusinessValue
    ELSE IF \/ company # NoCompany /\ StartsWith(lower, Lower(company.name))
            \/ StartsWith(lower, S_proposed_solution)
         THEN IF company # NoCompany
              THEN company.name \o <<" ">> \o T_ProposedSolution
              ELSE T_ProposedSolution
    ELSE NoTitle

VspBlock(stripped, company) ==
    LET title == VspTitleOf(Lower(stripped), company)
    IN  IF title # NoTitle THEN Heading(title)
        ELSE IF StartsWith(stripped, <<"-", " ">>) THEN BulletItem(From(stripped, 3))
        ELSE Paragraph(stripped, 6)

\* for line in vsp.split("\n")
WalkVsp(vsp, company) ==
    LET lines == SelectSeq(Split(vsp), IsNonBlank)
    IN  [k \in 1..Len(lines) |-> VspBlock(Strip(lines[k]), company)]

ContextLine(t) == [kind |-> "line", text |-> t, after |-> 6]

\* for line in client_context.split("\n")
WalkContext(client_context) ==
    LET lines == SelectSeq(Split(client_context), IsNonBlank)
    IN  [k \in 1..Len(lines) |-> ContextLine(Strip(lines[k]))]

S_EmailLabel ==
    <<"E","m","a","i","l",":"," ">>
S_PhoneLabel ==
    <<"P","h","o","n","e",":"," ">>
S_WebsiteLabel ==
    <<"W","e","b","s","i","t","e",":"," ">>
S_NA ==
    <<"N","/","A">>

ContactLine(t) == [kind |-> "line", text |-> t, after |-> 4]

\* contact_block: three f-strings over company.get(<column>, 'N/A')
contact_block(company) ==
    << ContactLine(S_EmailLabel \o Fmt(DictGet(company, "contact_email", PyStr(S_NA)))),
       ContactLine(S_PhoneLabel \o Fmt(DictGet(company, "contact_phone", PyStr(S_NA)))),
       ContactLine(S_WebsiteLabel \o Fmt(DictGet(company, "website", PyStr(S_NA)))) >>

----------------------------------------------------------------------------
(* Pure-function runs of clean_text_block                                  *)

MaxRawLen == 4
MaxPasses == 2

RawChars == {"*", "#", BULLET, "\r", "\n", " ", "a"}

\* the raw texts: both callers pass message.content.strip(), so a raw text
\* neither starts nor ends with whitespace
RawTexts == {t \in UNION {[1..n -> RawChars] : n \in 0..MaxRawLen} : Strip(t) = t}

AppIdle ==
    /\ db = <<>>
    /\ storage = <<>>
    /\ cookie = 0
    /\ nextSid = 1
    /\ inflight = EmptyBag
    /\ response = [kind |-> "none", target |-> "", flashes |-> <<>>, doc |-> <<>>]
    /\ respliced = FALSE

\* no line walk has run yet / the blocks of the walk that ran
NotWalked == [walked |-> FALSE, doc |-> <<>>]
Walked(doc) == [walked |-> TRUE, doc |-> doc]

InitClean ==
    /\ AppIdle
    /\ text \in RawTexts
    /\ hist = <<>>
    /\ blocks = NotWalked
    /\ vspBlocks = NotWalked

\* one more call of clean_text_block on the text the last call returned
CleanPass ==
    /\ Len(hist) < MaxPasses
    /\ hist' = Append(hist, text)
    /\ text' = clean_text_block(text)
    /\ UNCHANGED <<blocks, vspBlocks, appVars>>

NextClean == CleanPass

SpecClean == InitClean /\ [][NextClean]_vars

----------------------------------------------------------------------------
(* Pure-function runs of the closing splice and the draft line walk        *)

MaxLines == 3

\* the lines a generated draft is put together from
L_Introduction ==
    <<"I","n","t","r","o","d","u","c","t","i","o","n">>
L_WhyNow ==
    <<"W","h","y"," ","n","o","w">>
L_Closing ==
    <<"C","l","o","s","i","n","g"," ","C","a","l","l","-","t","o","-","A","c","t","i","o","n">>
L_NumberedClosing ==
    <<"7",")"," ","C","l","o","s","i","n","g">>
L_Bullet ==
    <<"-"," ","a">>
L_Blank ==
    <<" ">>
L_OldText ==
    <<"O","l","d"," ","t","e","x","t">>
L_SolutionColon ==
    <<"S","o","l","u","t","i","o","n"," ","O","v","e","r","v","i","e","w",":">>

DraftLines ==
    {L_Introduction, L_WhyNow, L_Closing, L_NumberedClosing,
     L_Bullet, L_Blank, L_OldText, L_SolutionColon}

\* "\n".join(ls)
RECURSIVE Join(_)
Join(ls) ==
    IF ls = <<>> THEN <<>>
    ELSE IF Len(ls) = 1 THEN ls[1]
    ELSE ls[1] \o <<"\n">> \o Join(Tail(ls))

\* the drafts: the routes splice, store and walk only what clean_text_block
\* returned, so a draft is a text that cleaning leaves as it is
DraftInputs ==
    {t \in {Join(ls) : ls \in UNION {[1..n -> DraftLines] : n \in 0..MaxLines}} :
        clean_text_block(t) = t}

S_Acme ==
    <<"A","c","m","e">>

\* the provider row the pure-function runs render for
PureCompany ==
    [id |-> 1, name |-> S_Acme, contact_email |-> PyStr(<<>>),
     contact_phone |-> PyStr(<<>>), website |-> PyStr(<<>>)]

InitDraft ==
    /\ AppIdle
    /\ text \in DraftInputs
    /\ hist = <<>>
    /\ blocks = NotWalked
    /\ vspBlocks = NotWalked

\* a refine whose reply repeats the current text: the reply is stripped and
\* cleaned, then the closing is spliced
SplicePass ==
    /\ Len(hist) < MaxPasses
    /\ hist' = Append(hist, text)
    /\ text' = SpliceClosing(clean_text_block(Strip(text)), RefineCta(PureCompany))
    /\ blocks' = NotWalked
    /\ UNCHANGED <<vspBlocks, appVars>>

\* the draft line walk of the download branch over the current text
WalkPass ==
    /\ ~blocks.walked
    /\ blocks' = Walked(WalkDraft(text, PureCompany))
    /\ UNCHANGED <<text, hist, vspBlocks, appVars>>

NextDraft == SplicePass \/ WalkPass

SpecDraft == InitDraft /\ [][NextDraft]_vars

----------------------------------------------------------------------------
(* Pure-function runs of the two line walks of the download branch         *)

\* the lines a walked text is put together from
L_Margin ==
    <<"-"," ","I","n","c","r","e","a","s","e"," ","m","a","r","g","i","n"," ","b","y"," ","1","0","%">>
L_WideBullet ==
    <<" "," ","-"," "," ","a"," ">>
L_Dash ==
    <<"-","a">>
L_BareMarker ==
    <<"-"," ">>
L_BulletWhy ==
    <<"-"," ","W","h","y"," ","n","o","w">>
L_TrailingSpace ==
    <<"-"," ","a"," ">>
L_CaseForChange ==
    <<"C","a","s","e"," ","f","o","r"," ","C","h","a","n","g","e">>

WalkLines ==
    {L_Margin, L_WideBullet, L_Dash, L_BareMarker, L_BulletWhy, L_TrailingSpace,
     L_Blank, L_Introduction, L_CaseForChange}

\* the texts the walks meet: a stored draft or vsp is a text that
\* clean_text_block leaves as it is
WalkInputs ==
    {t \in {Join(ls) : ls \in UNION {[1..n -> WalkLines] : n \in 0..MaxLines}} :
        clean_text_block(t) = t}

InitWalk ==
    /\ AppIdle
    /\ text \in WalkInputs
    /\ hist = <<>>
    /\ blocks = NotWalked
    /\ vspBlocks = NotWalked

\* the VSP line walk of the download branch over the current text
VspWalkPass ==
    /\ ~vspBlocks.walked
    /\ vspBlocks' = Walked(WalkVsp(text, PureCompany))
    /\ UNCHANGED <<text, hist, blocks, appVars>>

NextWalk == WalkPass \/ VspWalkPass

SpecWalk == InitWalk /\ [][NextWalk]_vars

----------------------------------------------------------------------------
(* The routes: what they read from the request                             *)

MaxCompanies == 1
MaxSessions == 1
MaxInflight == 2

\* session.get("id") when the cookie holds no id
NoId == 0

S_Zed ==
    <<"Z","e","d">>
S_x ==
    <<"x">>
S_phone ==
    <<"5","5","5","-","0","1","0","0">>

\* no request.form: the request that is under way is past its reading
NoForm == [method |-> "", keys |-> {}, refine_prompt |-> <<>>]

\* request.form.get(<field>, "") of POST /setup: a field left out reads "".
\* The forms give a phone number and leave the e-mail and the website out.
SetupForms ==
    {[name |-> n, contact_email |-> <<>>, contact_phone |-> S_phone, website |-> <<>>] :
        n \in {<<>>, <<" ">> \o S_Acme}}

\* the form of POST /: company_id 0 stands for a value int() rejects
IndexForm(cid, name, rest) ==
    [company_id |-> cid, client_name |-> name, client_industry |-> rest,
     client_goals |-> rest, proposal_modules |-> rest, recipient_role |-> rest,
     execution_model |-> <<>>, extra_notes |-> <<>>]

IndexForms ==
    {IndexForm(cid, S_Zed, S_x) : cid \in 1..MaxCompanies}
        \cup {IndexForm(1, <<" ">>, S_x), IndexForm(0, <<>>, <<>>)}

S_go ==
    <<"g","o">>

\* request.form.get("refine_prompt", "")
RefineInputs == {<<>>, <<" ", "\n">>, S_go}

\* request.method and request.form of a request to /result: the buttons
\* the form holds and its refine_prompt
ResultForm(method, keys, refine_prompt) ==
    [method |-> method, keys |-> keys, refine_prompt |-> refine_prompt]

ResultForms ==
    {ResultForm("POST", {"refine"}, p) : p \in RefineInputs}
        \cup {ResultForm("POST", {"download"}, <<>>),
              ResultForm("POST", {"download", "finish"}, <<>>),
              ResultForm("POST", {"finish"}, <<>>),
              ResultForm("POST", {}, <<>>),
              ResultForm("GET", {}, <<>>)}

G_Summary ==
    <<"#"," ","W","h","y"," ","n","o","w","\r","\n","-"," ","*","*","a","*","*","\n","7",")"," ","C",
      "l","o","s","i","n","g","\n","O","l","d"," ","t","e","x","t">>
S_timeout ==
    <<"t","i","m","e","o","u","t">>
S_NoneTypeStrip ==
    <<"'","N","o","n","e","T","y","p","e","'"," ","o","b","j","e","c","t"," ","h","a","s"," ","n","o",
      " ","a","t","t","r","i","b","u","t","e"," ","'","s","t","r","i","p","'">>

\* what client.chat.completions.create(...) and the read of
\* .choices[0].message.content come to: the call raises, the content is
\* None, or the content is a text
GenReplies ==
    {[raised |-> TRUE, err |-> S_timeout, content |-> PyNone],
     [raised |-> FALSE, err |-> <<>>, content |-> PyNone],
     [raised |-> FALSE, err |-> <<>>, content |-> PyStr(G_Summary)]}

\* the try block around a generation: the exception text, or no exception
\* (None has no .strip(): AttributeError)
GenError(reply) ==
    IF reply.raised THEN PyStr(reply.err)
    ELSE IF reply.content.none THEN PyStr(S_NoneTypeStrip)
    ELSE PyNone

\* clean_text_block(resp.choices[0].message.content.strip()), worked out
\* once for each text a reply carries
CleanedContent ==
    [content \in {reply.content.s : reply \in GenReplies} |->
        clean_text_block(Strip(content))]

GenText(reply) == CleanedContent[reply.content.s]

\* os.urandom(8).hex(): the n-th session id as its sixteen hex digits
SidHex(n) == [i \in 1..16 |-> <<"1", "2", "3", "4", "5", "6", "7", "8", "9">>[n]]

\* str(KeyError(session_id))
KeyErrorText(sid) == <<"'">> \o SidHex(sid) \o <<"'">>

----------------------------------------------------------------------------
(* DB helpers                                                              *)

\* insert_company: the row the INSERT adds, its id the next AUTOINCREMENT
insert_company(rows, profile) ==
    Append(rows, [id |-> Len(rows) + 1,
                  name |-> profile.name,
                  contact_email |-> PyStr(profile.contact_email),
                  contact_phone |-> PyStr(profile.contact_phone),
                  website |-> PyStr(profile.website)])

\* get_company: dict(zip(keys, row)) of the row with this id, or None
get_company(rows, company_id) ==
    IF company_id \in 1..Len(rows) THEN rows[company_id] ELSE NoCompany

----------------------------------------------------------------------------
(* flash(), and what a request answers                                     *)

Flash(category, msg, arg) == [category |-> category, msg |-> msg, arg |-> arg]

NoDoc == <<>>

\* render_template / redirect / send_file: the template, route or file
\* name, the messages flashed, and for a file the document saved
Answer(kind, target, flashes, doc) ==
    [kind |-> kind, target |-> target, flashes |-> flashes, doc |-> doc]

NoAnswer == Answer("none", "", <<>>, NoDoc)

----------------------------------------------------------------------------
(* POST /setup                                                             *)

\* setup, GET: the empty form is rendered
setup_get ==
    /\ response' = Answer("render", "setup.html", <<>>, NoDoc)
    /\ UNCHANGED <<db, storage, cookie, nextSid, inflight, respliced, fnVars>>

\* the requests under way whose op is one of ops
Under(ops) ==
    BagCardinality([r \in {q \in BagToSet(inflight) : q.op \in ops} |-> inflight[r]])

\* a request of setup or index that has loaded its session and is blocked in
\* its first call of sqlite3, with its form
Arrived(op, session_id, form) ==
    [op |-> op, session |-> session_id, sid |-> NoId, company |-> NoCompany,
     draft |-> PyStr(<<>>), vsp |-> PyStr(<<>>), client_context |-> <<>>,
     company_id |-> 0, form |-> form]

\* request.form.get(<field>, "").strip() of every field
Profile(form) ==
    [name |-> Strip(form.name),
     contact_email |-> Strip(form.contact_email),
     contact_phone |-> Strip(form.contact_phone),
     website |-> Strip(form.website)]

\* setup, POST, from the request to the call of insert_company: an empty
\* name is refused (the flash writes the session back as it was loaded)
setup(form) ==
    LET profile == Profile(form)
    IN  IF profile.name = <<>>
        THEN /\ response' = Answer("render", "setup.html",
                                   <<Flash("warning", "Company name is required", <<>>)>>,
                                   NoDoc)
             /\ UNCHANGED <<db, storage, cookie, nextSid, inflight, respliced, fnVars>>
        ELSE /\ Len(db) + Under({"setup"}) < MaxCompanies
             /\ BagCardinality(inflight) < MaxInflight
             /\ inflight' = inflight (+) SetToBag({Arrived("setup", cookie, form)})
             /\ UNCHANGED <<db, storage, cookie, nextSid, response, respliced, fnVars>>

\* setup, POST, from the INSERT to the redirect: the flash makes the response
\* write back the session the request loaded
setup_insert(req) ==
    LET profile == Profile(req.form)
    IN  /\ req.op = "setup"
        /\ inflight' = inflight (-) SetToBag({req})
        /\ db' = insert_company(db, profile)
        /\ cookie' = req.session
        /\ response' = Answer("redirect", "index",
                              <<Flash("success", "Company profile '{}' created.",
                                      profile.name)>>,
                              NoDoc)
        /\ UNCHANGED <<storage, nextSid, respliced, fnVars>>

----------------------------------------------------------------------------
(* POST /                                                                  *)

S_ClientName ==
    <<"C","l","i","e","n","t"," ","N","a","m","e",":"," ">>
S_ClientIndustry ==
    <<"\n","C","l","i","e","n","t"," ","I","n","d","u","s","t","r","y",":"," ">>
S_Goals ==
    <<"\n","G","o","a","l","s","/","C","h","a","l","l","e","n","g","e","s",":"," ">>
S_Modules ==
    <<"\n","P","r","o","p","o","s","e","d"," ","M","o","d","u","l","e","s",":"," ">>
S_Role ==
    <<"\n","R","e","c","i","p","i","e","n","t"," ","R","o","l","e",":"," ">>
S_ExecModel ==
    <<"\n","E","x","e","c","u","t","i","o","n"," ","M","o","d","e","l",":"," ">>
S_Notes ==
    <<"\n","A","d","d","i","t","i","o","n","a","l"," ","N","o","t","e","s",":"," ">>
S_VspFailed ==
    <<"V","S","P"," ","g","e","n","e","r","a","t","i","o","n"," ","f","a","i","l","e","d",":"," ">>
S_ExecFailed ==
    <<"E","x","e","c","u","t","i","v","e"," ","S","u","m","m","a","r","y"," ","g","e","n","e","r","a",
      "t","i","o","n"," ","f","a","i","l","e","d",":"," ">>

\* the f-string client_context, stripped
ClientContext(f) ==
    Strip(<<"\n">> \o S_ClientName \o Strip(f.client_name)
          \o S_ClientIndustry \o Strip(f.client_industry)
          \o S_Goals \o Strip(f.client_goals)
          \o S_Modules \o Strip(f.proposal_modules)
          \o S_Role \o Strip(f.recipient_role)
          \o S_ExecModel \o Strip(f.execution_model)
          \o S_Notes \o Strip(f.extra_notes) \o <<"\n">>)

Require(missing, msg) == IF missing THEN <<Flash("warning", msg, <<>>)>> ELSE <<>>

\* the mandatory field checks, one message per failed check, in order
IndexErrors(f) ==
    Require(f.company_id = 0, "Please select a provider.")
        \o Require(Strip(f.client_name) = <<>>, "Client Name is required.")
        \o Require(Strip(f.client_industry) = <<>>, "Client Industry is required.")
        \o Require(Strip(f.client_goals) = <<>>, "Client Goals / Challenges are required.")
        \o Require(Strip(f.proposal_modules) = <<>>,
                   "Proposed Solutions / Modules are required.")
        \o Require(Strip(f.recipient_role) = <<>>, "Recipient Role is required.")

\* a request blocked in a generation call, with the locals it holds
Pending(op, sid, company, draft) ==
    [op |-> op, session |-> sid, sid |-> sid, company |-> company, draft |-> draft,
     vsp |-> PyStr(<<>>), client_context |-> <<>>, company_id |-> company.id,
     form |-> NoForm]

\* index, GET: get_companies() and the form rendered
index_get ==
    /\ response' = Answer("render", "index.html", <<>>, NoDoc)
    /\ UNCHANGED <<db, storage, cookie, nextSid, inflight, respliced, fnVars>>

\* storage[session_id] = {...}
NewSlot(client_context, company_id) ==
    [client_context |-> client_context, draft |-> PyStr(<<>>), vsp |-> PyStr(<<>>),
     company_id |-> company_id]

\* index, POST, from the request to the call of get_companies
index(form) ==
    /\ BagCardinality(inflight) < MaxInflight
    /\ IndexErrors(form) = <<>> => nextSid + Under({"index"}) <= MaxSessions
    /\ inflight' = inflight (+) SetToBag({Arrived("index", cookie, form)})
    /\ UNCHANGED <<db, storage, cookie, nextSid, response, respliced, fnVars>>

\* index, POST, from the answer of get_companies to the call that generates
\* the VSP: the checks, the company lookup, the new session slot.  A flash
\* makes the response write back the session the request loaded.
index_post(req) ==
    LET form == req.form
        errors == IndexErrors(form)
        company == get_company(db, form.company_id)
        session_id == nextSid
    IN  /\ req.op = "index"
        /\ IF errors # <<>>
           THEN /\ inflight' = inflight (-) SetToBag({req})
                /\ response' = Answer("render", "index.html", errors, NoDoc)
                /\ cookie' = req.session
                /\ UNCHANGED <<storage, nextSid>>
           ELSE IF company = NoCompany
           THEN /\ inflight' = inflight (-) SetToBag({req})
                /\ response' = Answer("redirect", "setup",
                                      <<Flash("danger", "Selected company not found.",
                                              <<>>)>>,
                                      NoDoc)
                /\ cookie' = req.session
                /\ UNCHANGED <<storage, nextSid>>
           ELSE /\ nextSid <= MaxSessions
                /\ nextSid' = nextSid + 1
                /\ storage' = [s \in DOMAIN storage \cup {session_id} |->
                                 IF s = session_id
                                 THEN NewSlot(ClientContext(form), form.company_id)
                                 ELSE storage[s]]
                /\ inflight' = (inflight (-) SetToBag({req}))
                                   (+) SetToBag({Pending("index_vsp", session_id, company,
                                                         PyStr(<<>>))})
                /\ UNCHANGED <<cookie, response>>
        /\ UNCHANGED <<db, respliced, fnVars>>

\* a generation whose failure leaves nothing in the slot
GenOrNone(reply, placeholder) ==
    IF GenError(reply).none THEN PyStr(GenText(reply)) ELSE PyNone

\* the text a generation of index leaves: the cleaned content, or the
\* placeholder that names the exception
GenOrPlaceholder(reply, placeholder) ==
    IF GenError(reply).none THEN PyStr(GenText(reply))
    ELSE PyStr(placeholder \o GenError(reply).s)

ServerError == Answer("error", "500", <<>>, NoDoc)

\* index, from the VSP reply to the call that generates the summary; an
\* error answer writes back the session, which holds the new id since l.283
index_vsp_reply(req, reply) ==
    LET vsp_text == GenOrPlaceholder(reply, S_VspFailed)
    IN  /\ req.op = "index_vsp"
        /\ IF req.sid \in DOMAIN storage
           THEN /\ storage' = [storage EXCEPT ![req.sid].vsp = vsp_text]
                /\ inflight' = (inflight (-) SetToBag({req}))
                                    (+) SetToBag({[req EXCEPT !.op = "index_exec"]})
                /\ UNCHANGED <<cookie, response>>
           ELSE /\ inflight' = inflight (-) SetToBag({req})
                /\ response' = ServerError
                /\ cookie' = req.sid
                /\ UNCHANGED storage
        /\ UNCHANGED <<db, nextSid, respliced, fnVars>>

\* index, from the summary reply to the redirect: the draft is stored as
\* generated, the session cookie goes out with the response
index_exec_reply(req, reply) ==
    LET exec_text == GenOrPlaceholder(reply, S_ExecFailed)
    IN  /\ req.op = "index_exec"
        /\ inflight' = inflight (-) SetToBag({req})
        /\ IF req.sid \in DOMAIN storage
           THEN /\ storage' = [storage EXCEPT ![req.sid].draft = exec_text]
                /\ cookie' = req.sid
                /\ response' = Answer("redirect", "result", <<>>, NoDoc)
           ELSE /\ response' = ServerError
                /\ cookie' = req.sid
                /\ UNCHANGED storage
        /\ UNCHANGED <<db, nextSid, respliced, fnVars>>

----------------------------------------------------------------------------
(* POST /result                                                            *)

\* not session_id or session_id not in storage
NoActiveProposal(session_id) == session_id = NoId \/ session_id \notin DOMAIN storage

NoProposalAnswer ==
    Answer("redirect", "index",
           <<Flash("warning", "No active proposal found. Please generate one.", <<>>)>>,
           NoDoc)

\* data.get("draft", ""), data.get("vsp", ""), data.get("client_context",
\* ""), data.get("company_id"): a request of result that has read its slot
\* and is blocked in get_company, with its form and the locals it holds
Waiting(session_id, form, data) ==
    [op |-> "result", session |-> session_id, sid |-> session_id, company |-> NoCompany,
     draft |-> DictGet(data, "draft", PyStr(<<>>)),
     vsp |-> DictGet(data, "vsp", PyStr(<<>>)),
     client_context |-> DictGet(data, "client_context", <<>>),
     company_id |-> DictGet(data, "company_id", 0),
     form |-> form]

\* result, from the request to the read in get_company: the session check
\* and the reads of the slot
result(form) ==
    LET session_id == cookie
    IN  IF NoActiveProposal(session_id)
        THEN /\ response' = NoProposalAnswer
             /\ UNCHANGED <<db, storage, cookie, nextSid, inflight, respliced, fnVars>>
        ELSE /\ BagCardinality(inflight) < MaxInflight
             /\ inflight' = inflight (+) SetToBag({Waiting(session_id, form,
                                                           storage[session_id])})
             /\ UNCHANGED <<db, storage, cookie, nextSid, response, respliced, fnVars>>

\* get_company(company_id) if company_id else None
SlotCompany(data) ==
    IF data.company_id # 0 THEN get_company(db, data.company_id) ELSE NoCompany

\* the branch a request of result takes once get_company has answered
Branch(req) ==
    IF req.op # "result" THEN "none"
    ELSE IF req.form.method # "POST" THEN "page"
    ELSE IF "refine" \in req.form.keys THEN "refine"
    ELSE IF "download" \in req.form.keys THEN "download"
    ELSE IF "finish" \in req.form.keys THEN "finish"
    ELSE "page"

\* a refine branch that sends whatever instructions it is given
refine_post_unvalidated(req) ==
    /\ Branch(req) = "refine"
    /\ inflight' = (inflight (-) SetToBag({req}))
                       (+) SetToBag({Pending("refine", req.sid, SlotCompany(req),
                                             req.draft)})
    /\ UNCHANGED <<db, storage, cookie, nextSid, response, respliced, fnVars>>

\* result, the refine branch from the answer of get_company to the
\* generation call: empty instructions are refused before any call is made
\* (the flash writes back the session the request loaded)
refine_post(req) ==
    LET refine_input == Strip(req.form.refine_prompt)
    IN  /\ Branch(req) = "refine"
        /\ IF refine_input = <<>>
           THEN /\ inflight' = inflight (-) SetToBag({req})
                /\ response' =
                       Answer("render", "result.html",
                              <<Flash("warning", "Refine instructions cannot be empty.",
                                      <<>>)>>,
                              NoDoc)
                /\ cookie' = req.session
           ELSE /\ inflight' = (inflight (-) SetToBag({req}))
                                   (+) SetToBag({Pending("refine", req.sid,
                                                         SlotCompany(req), req.draft)})
                /\ UNCHANGED <<response, cookie>>
        /\ UNCHANGED <<db, storage, nextSid, respliced, fnVars>>

RefineFailed(err) ==
    Answer("render", "result.html", <<Flash("danger", "Refine failed: {}", err)>>, NoDoc)

\* a refine branch that writes the slot back whole: the draft goes into a
\* slot it puts under the session id, whether or not one is there
refine_reply_writing_back(req, reply) ==
    LET err == GenError(reply)
        draft == SpliceClosing(GenText(reply), RefineCta(req.company))
        slot == IF req.sid \in DOMAIN storage THEN storage[req.sid]
                ELSE NewSlot(<<>>, req.company.id)
    IN  /\ req.op = "refine"
        /\ inflight' = inflight (-) SetToBag({req})
        /\ IF ~err.none
           THEN /\ response' = RefineFailed(err.s)
                /\ cookie' = req.session
                /\ UNCHANGED <<storage, respliced>>
           ELSE /\ storage' = [s \in DOMAIN storage \cup {req.sid} |->
                                 IF s = req.sid THEN [slot EXCEPT !.draft = PyStr(draft)]
                                 ELSE storage[s]]
                /\ response' = Answer("render", "result.html", <<>>, NoDoc)
                /\ UNCHANGED <<respliced, cookie>>
        /\ UNCHANGED <<db, nextSid, fnVars>>

\* result, the refine branch from the reply on: the cleaned text is spliced
\* and stored; any exception, the store's KeyError included, is flashed and
\* the result page rendered, and the flash makes the response write back the
\* session the request loaded
refine_reply(req, reply) ==
    LET err == GenError(reply)
        draft == SpliceClosing(GenText(reply), RefineCta(req.company))
    IN  /\ req.op = "refine"
        /\ inflight' = inflight (-) SetToBag({req})
        /\ IF ~err.none
           THEN /\ response' = RefineFailed(err.s)
                /\ cookie' = req.session
                /\ UNCHANGED <<storage, respliced>>
           ELSE IF req.sid \notin DOMAIN storage
           THEN /\ response' = RefineFailed(KeyErrorText(req.sid))
                /\ cookie' = req.session
                /\ UNCHANGED <<storage, respliced>>
           ELSE /\ storage' = [storage EXCEPT ![req.sid].draft = PyStr(draft)]
                /\ response' = Answer("render", "result.html", <<>>, NoDoc)
                /\ respliced' = (respliced
                                  \/ EndsWith(storage[req.sid].draft.s,
                                              ClosingTail(RefineCta(req.company))))
                /\ UNCHANGED cookie
        /\ UNCHANGED <<db, nextSid, fnVars>>

HIDE_VSP_FROM_DOCX == FALSE

T_ExecSummaryBy ==
    <<"E","x","e","c","u","t","i","v","e"," ","S","u","m","m","a","r","y"," ","b","y"," ">>
T_ContactInformation ==
    <<"C","o","n","t","a","c","t"," ","I","n","f","o","r","m","a","t","i","o","n">>
T_VspBy ==
    <<"V","a","l","u","e"," ","S","e","l","l","i","n","g"," ","P","o","i","n","t","s"," ","b","y"," ">>
T_ClientContext ==
    <<"C","l","i","e","n","t"," ","C","o","n","t","e","x","t">>

DocHeading(t, level) == [kind |-> IF level = 0 THEN "title" ELSE "heading1", text |-> t,
                         after |-> 0]
PageBreak == [kind |-> "page_break", text |-> <<>>, after |-> 0]

\* the document the download branch builds: title, draft walk, contact
\* information, the VSP appendix, the client context
ExportDoc(draft, vsp, client_context, company) ==
    <<DocHeading(T_ExecSummaryBy \o ProviderName(company), 0)>>
        \o WalkDraft(draft, company)
        \o <<DocHeading(T_ContactInformation, 1)>>
        \o (IF company # NoCompany THEN contact_block(company) ELSE <<>>)
        \o (IF ~HIDE_VSP_FROM_DOCX /\ Strip(vsp) # <<>>
            THEN <<PageBreak, DocHeading(T_VspBy \o ProviderName(company), 0)>>
                     \o WalkVsp(vsp, company)
            ELSE <<>>)
        \o (IF client_context # <<>>
            THEN <<PageBreak, DocHeading(T_ClientContext, 0)>> \o WalkContext(client_context)
            ELSE <<>>)

\* result, the download branch: the document is built from the locals the
\* request read before get_company
download(req) ==
    /\ Branch(req) = "download"
    /\ inflight' = inflight (-) SetToBag({req})
    /\ IF req.draft.none \/ req.vsp.none
       THEN response' = ServerError
       ELSE response' =
                Answer("file", "Executive_Summary.docx", <<>>,
                       ExportDoc(req.draft.s, req.vsp.s, req.client_context,
                                 SlotCompany(req)))
    /\ UNCHANGED <<db, storage, cookie, nextSid, respliced, fnVars>>

\* result, the finish branch: storage.pop(session_id, None); session.clear()
finish(req) ==
    /\ Branch(req) = "finish"
    /\ inflight' = inflight (-) SetToBag({req})
    /\ storage' = [s \in DOMAIN storage \ {req.sid} |-> storage[s]]
    /\ cookie' = NoId
    /\ response' = Answer("redirect", "index",
                          <<Flash("info", "Session cleared.", <<>>)>>,
                          NoDoc)
    /\ UNCHANGED <<db, nextSid, respliced, fnVars>>

\* result, GET or a POST without a button: the result page
result_page(req) ==
    /\ Branch(req) = "page"
    /\ inflight' = inflight (-) SetToBag({req})
    /\ response' = Answer("render", "result.html", <<>>, NoDoc)
    /\ UNCHANGED <<db, storage, cookie, nextSid, respliced, fnVars>>

----------------------------------------------------------------------------
(* The application                                                         *)

Init ==
    /\ db = <<>>
    /\ storage = <<>>
    /\ cookie = NoId
    /\ nextSid = 1
    /\ inflight = EmptyBag
    /\ response = NoAnswer
    /\ respliced = FALSE
    /\ text = <<>>
    /\ hist = <<>>
    /\ blocks = NotWalked
    /\ vspBlocks = NotWalked

Next ==
    \/ setup_get
    \/ \E form \in SetupForms : setup(form)
    \/ \E req \in BagToSet(inflight) : setup_insert(req)
    \/ index_get
    \/ \E form \in IndexForms : index(form)
    \/ \E req \in BagToSet(inflight) : index_post(req)
    \/ \E req \in BagToSet(inflight), reply \in GenReplies : index_vsp_reply(req, reply)
    \/ \E req \in BagToSet(inflight), reply \in GenReplies : index_exec_reply(req, reply)
    \/ \E form \in ResultForms : result(form)
    \/ \E req \in BagToSet(inflight) : refine_post(req)
    \/ \E req \in BagToSet(inflight), reply \in GenReplies : refine_reply(req, reply)
    \/ \E req \in BagToSet(inflight) : download(req)
    \/ \E req \in BagToSet(inflight) : finish(req)
    \/ \E req \in BagToSet(inflight) : result_page(req)

Spec == Init /\ [][Next]_vars

----------------------------------------------------------------------------
(* Claims about clean_text_block, checked under SpecClean                  *)

\* C3: clean_text_block is idempotent: cleaning the text a first call
\* returned gives that same text back.
C3_CleanIdempotent == Len(hist) = 2 => text = hist[2]

\* C10: after clean_text_block the text holds no carriage return, whatever
\* mix of CRLF, lone CR and LF the input held.
C10_NoCarriageReturn == Len(hist) >= 1 => \A i \in 1..Len(text) : text[i] # "\r"

----------------------------------------------------------------------------
(* Claims about the closing splice and the draft walk, under SpecDraft     *)

\* C1: the closing splice is idempotent: the splice applied to its own
\* output returns that output.
C1_SpliceIdempotent == Len(hist) >= 2 => text = hist[Len(hist)]

IsClosingHeading(b) == b.kind = "heading" /\ b.text = T_Closing

\* C2: the walk of a spliced text meets exactly one Closing heading, and the
\* section it opens holds the canonical CTA paragraph and nothing else.
C2_OneClosingSection ==
    (Len(hist) >= 1 /\ blocks.walked) =>
        LET doc == blocks.doc
            at == {k \in 1..Len(doc) : IsClosingHeading(doc[k])}
        IN  /\ Cardinality(at) = 1
            /\ \A k \in at : /\ k + 1 = Len(doc)
                             /\ doc[k + 1].kind = "paragraph"
                             /\ doc[k + 1].text = RefineCta(PureCompany)

\* the non-blank lines of the text, stripped, in order
StrippedLines(t) ==
    LET lines == SelectSeq(Split(t), IsNonBlank)
    IN  [k \in 1..Len(lines) |-> Strip(lines[k])]

HeadingLabels(company) ==
    {T_Introduction, T_Understanding, T_Approach, T_Solution, T_Deliver,
     T_WhyPrefix \o ProviderName(company), T_Closing}

IsPunctuation(c) == c \in {":", ".", ",", ";", "!", "?", "-"}

\* the line is this heading label, in any case, with at most trailing
\* punctuation
IsLabel(line, label) ==
    /\ StartsWith(Lower(line), Lower(label))
    /\ \A i \in (Len(label) + 1)..Len(line) : IsPunctuation(line[i])

IsLabelLine(line, company) == \E label \in HeadingLabels(company) : IsLabel(line, label)

\* C5: a non-blank line that is no heading label is never emitted as a
\* heading: its block is a bullet or a paragraph that carries the line's text.
C5_ContentIsNotHeading ==
    blocks.walked =>
        LET lines == StrippedLines(text)
        IN  \A k \in 1..Len(lines) :
                ~IsLabelLine(lines[k], PureCompany) =>
                    /\ blocks.doc[k].kind \in {"bullet", "paragraph"}
                    /\ EndsWith(lines[k], blocks.doc[k].text)

IsHeadingBlock(b) == b.kind = "heading"
IsHeadingLine(line) == TitleOf(Lower(line), PureCompany) # NoTitle

\* the titles of the heading blocks the walk emitted, in order
EmittedTitles ==
    LET hs == SelectSeq(blocks.doc, IsHeadingBlock)
    IN  [k \in 1..Len(hs) |-> hs[k].text]

\* C9: the heading blocks come out in the order of the heading lines of the
\* text: the k-th heading block carries the label of the k-th heading line,
\* and a line that is a heading label is answered, at its own place among
\* the blocks, by the heading of that label.
C9_HeadingOrder ==
    blocks.walked =>
        LET lines == StrippedLines(text)
            hl == SelectSeq(lines, IsHeadingLine)
        IN  /\ Len(EmittedTitles) = Len(hl)
            /\ \A k \in 1..Len(hl) :
                   EmittedTitles[k] = TitleOf(Lower(hl[k]), PureCompany)
            /\ Len(blocks.doc) = Len(lines)
            /\ \A k \in 1..Len(lines) : \A label \in HeadingLabels(PureCompany) :
                   IsLabel(lines[k], label) => blocks.doc[k] = Heading(label)

\* headings met in an order that is not the canonical one
C9_Witness ==
    /\ blocks.walked
    /\ hist = <<>>
    /\ EmittedTitles = <<T_Solution, T_Closing, T_Introduction>>

----------------------------------------------------------------------------
(* Claims about the routes, checked under Spec                             *)

\* a contact value is absent: NULL in the table, or the "" a form field
\* left out is stored as
IsAbsent(v) == v.none \/ v.s = <<>>

ContactText(v) == IF IsAbsent(v) THEN S_NA ELSE v.s

\* the paragraphs that follow the Contact Information heading
ContactLines(doc) ==
    LET at == CHOOSE k \in 1..Len(doc) : doc[k].kind = "heading1"
    IN  [i \in 1..3 |-> doc[at + i].text]

\* C4: the exported contact section has one line per field, email, phone and
\* website, and an absent field reads N/A.
C4_AbsentFieldsAsNA ==
    (response.kind = "file" /\ ~NoActiveProposal(cookie)) =>
        LET company == SlotCompany(storage[cookie])
        IN  ContactLines(response.doc) =
                << S_EmailLabel \o ContactText(company.contact_email),
                   S_PhoneLabel \o ContactText(company.contact_phone),
                   S_WebsiteLabel \o ContactText(company.website) >>

\* a step in which a refine request leaves the bag and nothing is flashed:
\* the refine succeeded
RefineSucceeds(req) ==
    /\ req.op = "refine"
    /\ inflight' = inflight (-) SetToBag({req})
    /\ response'.flashes = <<>>

\* what the splice appends: the heading line and the canonical CTA
ClosingSuffix(company) == ClosingTail(formal_cta(ProviderName(company), S_the_client))

\* C6: every refine that succeeds stores a draft that ends with the Closing
\* Call-to-Action heading line and the canonical CTA.
C6_RefineStoresSplicedDraft ==
    [][\A req \in BagToSet(inflight) :
           RefineSucceeds(req) =>
               /\ req.sid \in DOMAIN storage'
               /\ ~storage'[req.sid].draft.none
               /\ EndsWith(storage'[req.sid].draft.s, ClosingSuffix(req.company))]_vars

\* a second refine of the same session has succeeded
C6_Witness ==
    /\ respliced
    /\ response = Answer("render", "result.html", <<>>, NoDoc)
    /\ ~NoActiveProposal(cookie)
    /\ EndsWith(storage[cookie].draft.s, ClosingSuffix(SlotCompany(storage[cookie])))

EmptyRefineAnswer ==
    Answer("render", "result.html",
           <<Flash("warning", "Refine instructions cannot be empty.", <<>>)>>, NoDoc)

\* C7: a refine request with empty or blank instructions issues no
\* generation call (it leaves the requests under way and none takes its
\* place), flashes the validation message and leaves the store as it was.
C7_EmptyRefineRejected ==
    [][\A req \in BagToSet(inflight) :
           (/\ Branch(req) = "refine"
            /\ Strip(req.form.refine_prompt) = <<>>
            /\ refine_post(req)) =>
               /\ inflight' = inflight (-) SetToBag({req})
               /\ storage' = storage
               /\ response' = EmptyRefineAnswer]_vars

\* the validation message was flashed for a session that holds a draft
C7_Witness ==
    /\ response = EmptyRefineAnswer
    /\ ~NoActiveProposal(cookie)
    /\ storage[cookie].draft.s # <<>>

Failed(reply) == reply.raised \/ reply.content.none

AllSlotsHoldStrings ==
    \A sid \in DOMAIN storage : ~storage[sid].draft.none /\ ~storage[sid].vsp.none

IsPlaceholder(v, prefix) == ~v.none /\ StartsWith(v.s, prefix) /\ Len(v.s) > Len(prefix)

\* C8: no slot ever holds None for its draft or its vsp; a failed VSP or
\* summary generation leaves the placeholder that names the failure in the
\* slot, and a failed refine leaves the store as it was.
C8_FailureLeavesStrings ==
    /\ []AllSlotsHoldStrings
    /\ [][\A req \in BagToSet(inflight) : \A reply \in GenReplies :
              Failed(reply) =>
                  /\ index_vsp_reply(req, reply) =>
                         IsPlaceholder(storage'[req.sid].vsp, S_VspFailed)
                  /\ index_exec_reply(req, reply) =>
                         IsPlaceholder(storage'[req.sid].draft, S_ExecFailed)
                  /\ refine_reply(req, reply) => storage' = storage]_vars

\* both generations of a session failed, and then a refine of it failed
C8_Witness ==
    /\ ~NoActiveProposal(cookie)
    /\ IsPlaceholder(storage[cookie].vsp, S_VspFailed)
    /\ IsPlaceholder(storage[cookie].draft, S_ExecFailed)
    /\ response = RefineFailed(S_timeout)

----------------------------------------------------------------------------
(* Claims about the line walks, checked under SpecWalk                     *)

BulletMarker == <<"-", " ">>

\* the lines of the text the walks do not skip, as they stand in the text
KeptLines(t) == SelectSeq(Split(t), IsNonBlank)

\* the draft walk answers each of these lines that begins with the marker,
\* and is no heading line, by a bullet whose text, put behind the marker
\* again, is that line
DraftBulletsKept(lines) ==
    blocks.walked =>
        /\ Len(blocks.doc) = Len(lines)
        /\ \A k \in 1..Len(lines) :
               (/\ StartsWith(lines[k], BulletMarker)
                /\ TitleOf(Lower(Strip(lines[k])), PureCompany) = NoTitle) =>
                   /\ blocks.doc[k].kind = "bullet"
                   /\ BulletMarker \o blocks.doc[k].text = lines[k]

\* the same of the VSP walk
VspBulletsKept(lines) ==
    vspBlocks.walked =>
        /\ Len(vspBlocks.doc) = Len(lines)
        /\ \A k \in 1..Len(lines) :
               (/\ StartsWith(lines[k], BulletMarker)
                /\ VspTitleOf(Lower(Strip(lines[k])), PureCompany) = NoTitle) =>
                   /\ vspBlocks.doc[k].kind = "bullet"
                   /\ BulletMarker \o vspBlocks.doc[k].text = lines[k]

\* C11: in the draft walk and in the VSP walk, every non-heading line of the
\* text that begins with the marker "- " is emitted as a bullet whose text is
\* the line with exactly the marker removed, the rest verbatim.
C11_BulletFidelity ==
    DraftBulletsKept(KeptLines(text)) /\ VspBulletsKept(KeptLines(text))

\* C11, amended: the walks trim each line first; every non-heading line that
\* begins with the marker "- " after trimming is emitted as a bullet whose
\* text is the trimmed line with exactly the marker removed, the rest
\* verbatim.
C11_TrimmedBulletFidelity ==
    DraftBulletsKept(StrippedLines(text)) /\ VspBulletsKept(StrippedLines(text))

\* both walks ran over a text that holds the line "- Increase margin by 10%"
\* and the line "-  a", whose content begins with a space
C11_Witness ==
    /\ blocks.walked
    /\ vspBlocks.walked
    /\ \E k \in 1..Len(blocks.doc) :
           /\ blocks.doc[k] = BulletItem(From(L_Margin, 3))
           /\ vspBlocks.doc[k] = BulletItem(From(L_Margin, 3))
    /\ \E k \in 1..Len(blocks.doc) :
           /\ blocks.doc[k] = BulletItem(<<" ", "a">>)
           /\ vspBlocks.doc[k] = BulletItem(<<" ", "a">>)

\* the places, among the lines of the text, of the lines that hold a
\* character other than whitespace
NonBlankPlaces(t) ==
    LET lines == Split(t)
    IN  {i \in 1..Len(lines) : \E j \in 1..Len(lines[i]) : lines[i][j] \notin SpaceChars}

\* the walk emitted one block per non-blank line, none of them empty
NoEmptyBlock(walk) ==
    walk.walked =>
        /\ Len(walk.doc) = Cardinality(NonBlankPlaces(text))
        /\ \A k \in 1..Len(walk.doc) : walk.doc[k].text # <<>>

\* C12: the line walk skips blank lines and emits no empty block: there are
\* as many blocks as lines that are non-empty after trimming, the k-th block
\* is the block of the k-th such line, and every block has text.
C12_BlankLinesSkipped ==
    /\ NoEmptyBlock(blocks)
    /\ NoEmptyBlock(vspBlocks)
    /\ blocks.walked =>
           LET lines == StrippedLines(text)
           IN  \A k \in 1..Len(lines) :
                   LET b == blocks.doc[k]
                   IN  \/ b.kind = "paragraph" /\ b.text = lines[k]
                       \/ b.kind = "bullet" /\ BulletMarker \o b.text = lines[k]
                       \/ b.kind = "heading"
                              /\ b.text = TitleOf(Lower(lines[k]), PureCompany)

\* the draft walk ran over a text with a blank line between two lines that
\* got blocks
C12_Witness ==
    /\ blocks.walked
    /\ Len(blocks.doc) = 2
    /\ Len(Split(text)) = 3
    /\ 2 \notin NonBlankPlaces(text)

----------------------------------------------------------------------------
(* Claim about finished sessions, checked under Spec                       *)

\* the session ids index has handed out so far
IssuedIds == 1..(nextSid - 1)

\* the id was handed out and its slot is gone: the session was finished
IsFinished(sid) == sid \in IssuedIds /\ sid \notin DOMAIN storage

\* C13: a finished session has no entry in the store ever again: no step
\* gives a finished session id a slot (a request that read the slot before
\* the finish and goes on after it included), and a refine whose reply comes
\* in after the finish leaves the store as it is and reports a refine
\* failure.
C13_NoResurrection ==
    [][/\ \A sid \in IssuedIds : IsFinished(sid) => sid \notin DOMAIN storage'
       /\ \A req \in BagToSet(inflight) : \A reply \in GenReplies :
              (IsFinished(req.sid) /\ refine_reply(req, reply)) =>
                  /\ storage' = storage
                  /\ \E err \in {Fmt(GenError(reply)), KeyErrorText(req.sid)} :
                         response' = RefineFailed(err)]_vars

\* the text of a refine came in after the finish of its session: the write
\* failed on the missing key
C13_Witness ==
    /\ IsFinished(1)
    /\ inflight = EmptyBag
    /\ response = RefineFailed(KeyErrorText(1))

=============================================================================
